---- MODULE Spec2Model ----
(***************************************************************************)
(* A model of load_balancer_simulator.cc: the upstream servers' FIFO       *)
(* queues with a concurrency window, the three load balancing policies,    *)
(* the proxies' local counters, and the simulator's tick and statistics.   *)
(*                                                                         *)
(* The source is single threaded, so each public operation is one action.  *)
(* Fields whose names start with h_ and the variables completions,         *)
(* selections and sent are history (ghost) state: they record what the     *)
(* code did and are never read by the modelled code.                       *)
(***************************************************************************)
EXTENDS Integers, Sequences, FiniteSets, TLC

\* ------------------------------------------------------------------ bounds
\* proxy_servers + backend_servers is at most MaxNodes.
MaxNodes == 3
\* run1TimeUnit is called at most MaxTicks times in a run.
MaxTicks == 4
\* At most MaxSends requests are sent in a run.
MaxSends == 3
\* The server harness: at most MaxEnqueue requests are enqueued on a server
\* and processRequest is called at most MaxCalls times.
MaxEnqueue == 3
MaxCalls == 6

\* ------------------------------------------------------- program constants
\* constexpr int concurrency = 6
concurrency == 6
\* UpstreamServer::service_time, set by the constructor
service_time == 100
\* int tail = request_cnt / 1000
TailDivisor == 1000

\* The builds that are explored, as (concurrency, service_time): the
\* program's own, in which no request completes within MaxTicks, and two
\* scaled down so that queues overflow the window and requests complete.
Builds == {[cap |-> concurrency, svc |-> service_time],
           [cap |-> 1, svc |-> 1], [cap |-> 2, svc |-> 2]}
\* The builds of the server harness.
ServerBuilds == {[cap |-> 1, svc |-> 2], [cap |-> 2, svc |-> 3]}

KnownPolicies == {"Round Robin", "Random Select", "Least Request"}
\* Any other string: ProxyServer's constructor leaves load_balancer null.
Policies == KnownPolicies \cup {"Unknown"}

\* What an out-of-bounds read of all_latency can yield.
GarbageValues == {-1, 7}
\* The outcome of a read or a division: a value, or the operation traps.
Value(v) == [trap |-> FALSE, value |-> v]
Trap == [trap |-> TRUE, value |-> 0]
\* The outcomes of an operation whose behaviour is undefined.
Undefined == {Value(v) : v \in GarbageValues} \cup {Trap}

NoReport == [called |-> FALSE, size |-> 0, index |-> 0, tail |-> Trap,
             divided |-> FALSE, divisor |-> 0, mean |-> Trap]


\* history of a proxy that has not called selectUpstreamServer yet
NoSelection == [n |-> 0, a |-> 0, b |-> 0, ca |-> 0, cb |-> 0, ret |-> 0]

VARIABLES
    proxy_servers,    \* constructor argument proxy_servers_
    backend_servers,  \* constructor argument backend_servers_
    lb_policy,        \* constructor argument lb_policy_
    cap,              \* the build's concurrency
    svc,              \* the build's UpstreamServer::service_time
    upstream_servers, \* Backend::upstream_servers
    active_requests,  \* per proxy: LoadBalancer::active_requests
    cur_idx,          \* per proxy: RoundRobin::cur_idx
    response_latency, \* the three static per-tick buffers
    request_proxy,
    response_server,
    all_latency,      \* LBSimulator statistics
    request_cnt,
    total_latency,
    timer,
    output,           \* what has been written to the output stream
    status,           \* "running", or how the run ended
    report,           \* what latency() printed and returned
    completions,      \* history: every completion record, in emission order
    selections,       \* history: per proxy, its latest selectUpstreamServer
                      \* call (draws a and b, their counters, the result) and
                      \* the number n of calls so far
    sent              \* history: number of requests sent

vars == <<proxy_servers, backend_servers, lb_policy, cap, svc, upstream_servers,
          active_requests, cur_idx, response_latency, request_proxy,
          response_server, all_latency, request_cnt, total_latency, timer,
          output, status, report, completions, selections, sent>>

config == <<proxy_servers, backend_servers, lb_policy, cap, svc>>
batch == <<response_latency, request_proxy, response_server>>
stats == <<all_latency, request_cnt, total_latency, timer, output>>

Proxies == 0 .. proxy_servers - 1
Servers == 0 .. backend_servers - 1

\* ------------------------------------------------------------ helpers
RECURSIVE SumSeq(_)
SumSeq(s) == IF s = <<>> THEN 0 ELSE Head(s) + SumSeq(Tail(s))

RECURSIVE SumOver(_, _)
SumOver(f, S) ==
    IF S = {} THEN 0
    ELSE LET x == CHOOSE y \in S : TRUE IN f[x] + SumOver(f, S \ {x})

Range(s) == {s[i] : i \in 1 .. Len(s)}

MaxOf(S) == CHOOSE x \in S : \A y \in S : y <= x
MinOf(S) == CHOOSE x \in S : \A y \in S : x <= y

\* std::sort on a vector<int>: insertion into an ascending sequence.
RECURSIVE Insert(_, _)
Insert(x, s) ==
    IF s = <<>> THEN <<x>>
    ELSE IF x <= Head(s) THEN <<x>> \o s
    ELSE <<Head(s)>> \o Insert(x, Tail(s))

RECURSIVE Sort(_)
Sort(s) == IF s = <<>> THEN <<>> ELSE Insert(Head(s), Sort(Tail(s)))

\* ------------------------------------------------------------ UpstreamServer
NewServer(id) ==
    [server_id |-> id,
     service_timers |-> <<>>, request_sources |-> <<>>, latencies |-> <<>>,
     h_ids |-> <<>>, h_waits |-> <<>>, h_enq |-> <<>>,
     h_enqueued |-> 0, h_calls |-> 0]

\* Mutant: the request is pushed on the front of the deques.
ServerOnReceiveRequestFront(srv, source) ==
    [srv EXCEPT
        !.service_timers = <<svc>> \o @,
        !.request_sources = <<source>> \o @,
        !.latencies = <<0>> \o @,
        !.h_ids = <<srv.h_enqueued + 1>> \o @,
        !.h_waits = <<0>> \o @,
        !.h_enq = <<srv.h_calls>> \o @,
        !.h_enqueued = @ + 1]

\* Mutant: the arrival tick itself counts as the first tick of latency.
ServerOnReceiveRequestCounted(srv, source) ==
    [srv EXCEPT
        !.service_timers = Append(@, svc),
        !.request_sources = Append(@, source),
        !.latencies = Append(@, 1),
        !.h_ids = Append(@, srv.h_enqueued + 1),
        !.h_waits = Append(@, 0),
        !.h_enq = Append(@, srv.h_calls),
        !.h_enqueued = @ + 1]

\* UpstreamServer::onReceiveRequest: push_back on the three deques.
ServerOnReceiveRequest(srv, source) ==
    [srv EXCEPT
        !.service_timers = Append(@, svc),
        !.request_sources = Append(@, source),
        !.latencies = Append(@, 0),
        !.h_ids = Append(@, srv.h_enqueued + 1),
        !.h_waits = Append(@, 0),
        !.h_enq = Append(@, srv.h_calls),
        !.h_enqueued = @ + 1]

\* Mutant: only the requests inside the window accrue latency.
TickLatenciesWindowOnly(lat) ==
    [i \in 1 .. Len(lat) |-> IF i <= cap THEN lat[i] + 1 ELSE lat[i]]

\* for (int& latency: latencies) latency++;
TickLatencies(lat) == [i \in 1 .. Len(lat) |-> lat[i] + 1]

\* Mutant: the loop bound is i <= concurrency.
TickTimersOffByOne(timers) ==
    [i \in 1 .. Len(timers) |->
        IF i <= cap + 1 THEN timers[i] - 1 ELSE timers[i]]

\* Mutant: the loop has no window, every queued request is decremented.
TickTimersWholeQueue(timers) == [i \in 1 .. Len(timers) |-> timers[i] - 1]

\* Mutant: the loop starts at index 1, the front request is never served.
TickTimersSkipFront(timers) ==
    [i \in 1 .. Len(timers) |->
        IF i > 1 /\ i <= cap THEN timers[i] - 1 ELSE timers[i]]

\* for (i = 0; i < size && i < concurrency; i++) service_timers[i]--;
TickTimers(timers) ==
    [i \in 1 .. Len(timers) |-> IF i <= cap THEN timers[i] - 1 ELSE timers[i]]

\* history: a request at 0-based index >= concurrency waited this tick.
TickWaits(waits) ==
    [i \in 1 .. Len(waits) |-> IF i <= cap THEN waits[i] ELSE waits[i] + 1]

\* while (!service_timers.empty() && service_timers.front() == 0) { pop, emit }
RECURSIVE Drain(_, _)
Drain(srv, out) ==
    IF srv.service_timers # <<>> /\ Head(srv.service_timers) = 0
    THEN Drain([srv EXCEPT
                    !.service_timers = Tail(@),
                    !.latencies = Tail(@),
                    !.request_sources = Tail(@),
                    !.h_ids = Tail(@), !.h_waits = Tail(@), !.h_enq = Tail(@)],
               Append(out, [latency |-> Head(srv.latencies),
                            proxy |-> Head(srv.request_sources),
                            server |-> srv.server_id,
                            h_id |-> Head(srv.h_ids),
                            h_wait |-> Head(srv.h_waits),
                            h_enq |-> Head(srv.h_enq),
                            h_done |-> srv.h_calls]))
    ELSE [server |-> srv, out |-> out]

\* UpstreamServer::processRequest: the server after the call and the
\* completion records it pushed on the three buffers.
ServerProcessRequest(srv) ==
    Drain([srv EXCEPT
               !.latencies = TickLatencies(@),
               !.service_timers = TickTimers(@),
               !.h_waits = TickWaits(@),
               !.h_calls = @ + 1],
          <<>>)

\* UpstreamServer::activeRequests
ActiveRequests(srv) == Len(srv.service_timers)

\* ------------------------------------------------------------ Backend
\* Backend::processRequest: every server in index order, from server i on.
RECURSIVE BackendProcessRequest(_, _, _)
BackendProcessRequest(servers, i, out) ==
    IF i >= backend_servers THEN [servers |-> servers, out |-> out]
    ELSE LET r == ServerProcessRequest(servers[i])
         IN BackendProcessRequest([servers EXCEPT ![i] = r.server], i + 1,
                                  out \o r.out)

\* Backend::activeRequests
BackendActiveRequests(servers) == [s \in Servers |-> ActiveRequests(servers[s])]

\* ------------------------------------------------------------ LoadBalancer
\* Mutant: the send is not counted.
LBOnSendRequestUncounted(counters, upstream_server) == counters

\* LoadBalancer::onSendRequest
LBOnSendRequest(counters, upstream_server) ==
    [counters EXCEPT ![upstream_server] = @ + 1]

\* Mutant: a response is always counted against server 0.
LBOnReceiveResponseFirstServer(counters, upstream_server) ==
    [counters EXCEPT ![0] = @ - 1]

\* Mutant: the response is not counted.
LBOnReceiveResponseUncounted(counters, upstream_server) == counters

\* LoadBalancer::onReceiveResponse
LBOnReceiveResponse(counters, upstream_server) ==
    [counters EXCEPT ![upstream_server] = @ - 1]

\* Mutant: the cursor is not incremented.
RoundRobinSelectNoIncrement(cur, num_servers) == cur % num_servers

\* RoundRobin::selectUpstreamServer: the cursor after cur_idx++, cur_idx %= n.
RoundRobinSelect(cur, num_servers) == (cur + 1) % num_servers

\* RandomSelect::selectUpstreamServer: rand() % num_servers, the draw being r.
RandomSelectSelect(r) == r

\* Mutant: the comparison is <=, a tie goes to the first draw.
LeastRequestsSelectTieFirst(counters, a, b) ==
    IF counters[a] <= counters[b] THEN a ELSE b

\* LeastRequests::selectUpstreamServer with server1 = a and server2 = b, the
\* first draw that differs from a.
LeastRequestsSelect(counters, a, b) ==
    IF counters[a] < counters[b] THEN a ELSE b

\* The while loop of LeastRequests never leaves when no index differs from
\* server1.
LeastRequestsLoops(num_servers) == num_servers = 1

\* The random draws one selectUpstreamServer call consumes, as <<a, b>>.
Draws(policy, num_servers) ==
    \* no server: rand() % 0 has no defined value, the call does not get
    \* as far as using one
    IF num_servers <= 0 THEN {<<0, 0>>}
    ELSE IF policy = "Random Select"
    THEN {<<a, a>> : a \in 0 .. num_servers - 1}
    ELSE IF policy = "Least Request"
    THEN {<<a, b>> : a \in 0 .. num_servers - 1,
                     b \in IF LeastRequestsLoops(num_servers) THEN {0}
                           ELSE 0 .. num_servers - 1} \
         {<<a, a>> : a \in IF LeastRequestsLoops(num_servers) THEN {}
                           ELSE 0 .. num_servers - 1}
    ELSE {<<0, 0>>}

\* ------------------------------------------------------------ ProxyServer
\* Mutant: the proxies share one view of the load, a send is counted by
\* every proxy.
ProxyOnSendRequestShared(st, p, r) ==
    IF lb_policy \notin KnownPolicies THEN [st EXCEPT !.status = "null_policy_call"]
    ELSE IF Servers = {} THEN [st EXCEPT !.status = "modulo_zero"]
    ELSE IF lb_policy = "Least Request" /\ LeastRequestsLoops(backend_servers)
    THEN [st EXCEPT !.status = "select_loop"]
    ELSE
    LET cur == IF lb_policy = "Round Robin"
               THEN RoundRobinSelect(st.cur[p], backend_servers)
               ELSE st.cur[p]
        selected_upstream ==
            IF lb_policy = "Round Robin" THEN cur
            ELSE IF lb_policy = "Random Select" THEN RandomSelectSelect(r[1])
            ELSE LeastRequestsSelect(st.active[p], r[1], r[2])
    IN [st EXCEPT
           !.cur[p] = cur,
           !.active = [q \in Proxies |->
                          LBOnSendRequest(st.active[q], selected_upstream)],
           !.servers[selected_upstream] = ServerOnReceiveRequest(@, p),
           !.sels[p] = [n |-> @.n + 1, a |-> r[1], b |-> r[2],
                        ca |-> st.active[p][r[1]], cb |-> st.active[p][r[2]],
                        ret |-> selected_upstream]]

\* ProxyServer::onSendRequest of proxy p on the state st, with draws r.
\* A null load_balancer (unknown policy) is dereferenced: undefined behaviour,
\* the run ends there. Least Request with one server never returns.
ProxyOnSendRequest(st, p, r) ==
    IF lb_policy \notin KnownPolicies THEN [st EXCEPT !.status = "null_policy_call"]
    \* backend->num_servers() is 0: every policy computes a remainder by zero.
    ELSE IF Servers = {} THEN [st EXCEPT !.status = "modulo_zero"]
    ELSE IF lb_policy = "Least Request" /\ LeastRequestsLoops(backend_servers)
    THEN [st EXCEPT !.status = "select_loop"]
    ELSE
    LET cur == IF lb_policy = "Round Robin"
               THEN RoundRobinSelect(st.cur[p], backend_servers)
               ELSE st.cur[p]
        selected_upstream ==
            IF lb_policy = "Round Robin" THEN cur
            ELSE IF lb_policy = "Random Select" THEN RandomSelectSelect(r[1])
            ELSE LeastRequestsSelect(st.active[p], r[1], r[2])
    IN [st EXCEPT
           !.cur[p] = cur,
           !.active[p] = LBOnSendRequest(@, selected_upstream),
           !.servers[selected_upstream] = ServerOnReceiveRequest(@, p),
           !.sels[p] = [n |-> @.n + 1, a |-> r[1], b |-> r[2],
                        ca |-> st.active[p][r[1]], cb |-> st.active[p][r[2]],
                        ret |-> selected_upstream]]

\* ------------------------------------------------------------ Frontend
\* Frontend::onReceiveRequest: for each proxy in order, the proxies in sends
\* are those whose draw rand() % proxies.size() was 0.
RECURSIVE FrontendOnReceiveRequest(_, _, _, _)
FrontendOnReceiveRequest(st, i, sends, rnd) ==
    IF i >= proxy_servers \/ st.status # "running" THEN st
    ELSE IF i \notin sends THEN FrontendOnReceiveRequest(st, i + 1, sends, rnd)
    ELSE FrontendOnReceiveRequest(ProxyOnSendRequest(st, i, rnd[i]), i + 1,
                                  sends, rnd)

\* ------------------------------------------------------------ LBSimulator
\* The deliver loop stopping one record short of the batch's end.
RECURSIVE DeliverResponsesSkipLast(_, _, _, _)
DeliverResponsesSkipLast(active, proxies, servers, i) ==
    IF i >= Len(proxies) THEN active
    ELSE DeliverResponsesSkipLast(
             [active EXCEPT ![proxies[i]] = LBOnReceiveResponse(@, servers[i])],
             proxies, servers, i + 1)

\* The loop of collectStats that delivers the batch to the proxies.
RECURSIVE DeliverResponses(_, _, _, _)
DeliverResponses(active, proxies, servers, i) ==
    IF i > Len(proxies) THEN active
    ELSE DeliverResponses(
             [active EXCEPT ![proxies[i]] = LBOnReceiveResponse(@, servers[i])],
             proxies, servers, i + 1)

\* Mutant: the longest queue alone, the shortest one not subtracted.
ImbalanceMaxOnly(servers) ==
    MaxOf({ActiveRequests(servers[s]) : s \in Servers})

\* max_element - min_element of backend.activeRequests()
Imbalance(servers) ==
    LET states == BackendActiveRequests(servers)
        vals == {states[s] : s \in Servers}
    IN MaxOf(vals) - MinOf(vals)

\* What collectStats writes to the output stream: the imbalance, or, with no
\* server, what dereferencing max_element's end iterator yields.
ImbalanceWritten(servers) ==
    IF Servers = {} THEN Undefined ELSE {Value(Imbalance(servers))}

\* LBSimulator::cleanup
Cleanup == <<>>

\* The state after LBSimulator's constructor, for a build in builds and the
\* arguments <<proxy_servers_, backend_servers_>> in counts. An argument <= 0
\* leaves the collection empty: the constructors' loops do not run.
ConstructedWith(builds, counts) ==
    /\ \E c \in counts : proxy_servers = c[1] /\ backend_servers = c[2]
    /\ lb_policy \in Policies
    /\ \E b \in builds : cap = b.cap /\ svc = b.svc
    /\ upstream_servers = [s \in Servers |-> NewServer(s)]
    /\ active_requests = [p \in Proxies |-> [s \in Servers |-> 0]]
    /\ cur_idx = [p \in Proxies |-> 0]
    /\ response_latency = Cleanup
    /\ request_proxy = Cleanup
    /\ response_server = Cleanup
    /\ all_latency = <<>>
    /\ request_cnt = 0
    /\ total_latency = 0
    /\ timer = 0
    /\ output = <<>>
    /\ status = "running"
    /\ report = NoReport
    /\ completions = <<>>
    /\ selections = [p \in Proxies |-> NoSelection]
    /\ sent = 0

\* The configurations the documentation accepts: both counts positive.
ValidCounts ==
    {c \in (1 .. MaxNodes) \X (1 .. MaxNodes) : c[1] + c[2] <= MaxNodes}

Constructed(builds) == ConstructedWith(builds, ValidCounts)

Init == Constructed(Builds)

\* LBSimulator::run1TimeUnit: processRequest, collectStats, cleanup, arrivals,
\* the proxies in sends sending with the draws rnd.
Tick(sends, rnd) ==
    LET processed == BackendProcessRequest(upstream_servers, 0, <<>>)
        \* the three buffers after backend.processRequest()
        lat == response_latency \o
               [i \in 1 .. Len(processed.out) |-> processed.out[i].latency]
        prx == request_proxy \o
               [i \in 1 .. Len(processed.out) |-> processed.out[i].proxy]
        srv == response_server \o
               [i \in 1 .. Len(processed.out) |-> processed.out[i].server]
        \* collectStats
        delivered == DeliverResponses(active_requests, prx, srv, 1)
    IN \E written \in ImbalanceWritten(processed.servers) :
       LET arrived == IF written.trap
                      THEN [servers |-> processed.servers,
                            active |-> delivered,
                            cur |-> cur_idx,
                            sels |-> selections,
                            status |-> "imbalance_trap"]
                      ELSE FrontendOnReceiveRequest(
                               [servers |-> processed.servers,
                                active |-> delivered,
                                cur |-> cur_idx,
                                sels |-> selections,
                                status |-> "running"],
                               0, sends, rnd)
       IN /\ timer' = timer + 1
          /\ request_cnt' = request_cnt + Len(lat)
          /\ total_latency' = total_latency + SumSeq(lat)
          /\ all_latency' = all_latency \o lat
          /\ output' = IF written.trap THEN output
                       ELSE Append(output, written.value)
          /\ completions' = completions \o processed.out
          \* cleanup (not reached when collectStats trapped)
          /\ response_latency' = IF written.trap THEN lat ELSE Cleanup
          /\ request_proxy' = IF written.trap THEN prx ELSE Cleanup
          /\ response_server' = IF written.trap THEN srv ELSE Cleanup
          \* frontend.onReceiveRequest()
          /\ upstream_servers' = arrived.servers
          /\ active_requests' = arrived.active
          /\ cur_idx' = arrived.cur
          /\ selections' = arrived.sels
          /\ sent' = SumOver([p \in Proxies |-> arrived.sels[p].n], Proxies)
          \* Frontend::onReceiveRequest is declared int and returns
          \* nothing: flowing off its end is undefined, the build either
          \* returns to the caller or traps.
          /\ IF arrived.status = "running"
             THEN status' \in {"running", "no_return_trap"}
             ELSE status' = arrived.status
          /\ UNCHANGED <<config, report>>

\* run1TimeUnit with the arrivals of Frontend::onReceiveRequest: each proxy
\* sends when its draw rand() % proxies.size() is 0.
Run1TimeUnit ==
    /\ status = "running"
    /\ timer < MaxTicks
    /\ \E sends \in SUBSET Proxies :
       \E rnd \in [sends -> Draws(lb_policy, backend_servers)] :
          /\ sent + Cardinality(sends) <= MaxSends
          /\ Tick(sends, rnd)

\* LBSimulator::latency: sorts the history, prints the tail latency and
\* returns the mean. It is the final report of a run.
\* all_latency.size() - tail is unsigned arithmetic; request_cnt is the size
\* of all_latency, so the difference does not wrap.
Latency ==
    /\ status = "running"
    /\ LET sorted == Sort(all_latency)
           tail == request_cnt \div TailDivisor
           index == Len(sorted) - tail
           ReadAt(i) == IF i >= 0 /\ i < Len(sorted) THEN {Value(sorted[i + 1])}
                        ELSE Undefined
           Divide(n, d) == IF d # 0 THEN {Value(n \div d)} ELSE Undefined
       IN \E read \in ReadAt(index) :
          \E mean \in IF read.trap THEN {Trap}
                      ELSE Divide(total_latency, request_cnt) :
             /\ all_latency' = sorted
             /\ report' = [called |-> TRUE, size |-> Len(sorted),
                           index |-> index, tail |-> read,
                           divided |-> ~read.trap, divisor |-> request_cnt,
                           mean |-> mean]
             /\ status' = IF read.trap THEN "tail_read_trap"
                          ELSE IF mean.trap THEN "division_trap"
                          ELSE "reported"
    /\ UNCHANGED <<config, upstream_servers, active_requests, cur_idx, batch,
                   request_cnt, total_latency, timer, output, completions,
                   selections, sent>>

Next == Run1TimeUnit \/ Latency

Spec == Init /\ [][Next]_vars

\* ------------------------------------------------------------ server harness
\* The Backend driven directly, as a unit test does: requests are enqueued at
\* any time and in any number, processRequest is called at any time.

\* Backend::onReceiveRequest(upstream_server, proxy)
OnReceiveRequest(upstream_server, proxy) ==
    /\ upstream_servers[upstream_server].h_enqueued < MaxEnqueue
    /\ upstream_servers' =
           [upstream_servers EXCEPT
               ![upstream_server] = ServerOnReceiveRequest(@, proxy)]
    /\ UNCHANGED <<config, active_requests, cur_idx, batch, stats, status,
                   report, completions, selections, sent>>

\* Backend::processRequest()
ProcessRequest ==
    /\ \A s \in Servers : upstream_servers[s].h_calls < MaxCalls
    /\ LET processed == BackendProcessRequest(upstream_servers, 0, <<>>)
           n == Len(processed.out)
       IN /\ upstream_servers' = processed.servers
          /\ response_latency' =
                 response_latency \o [i \in 1 .. n |-> processed.out[i].latency]
          /\ request_proxy' =
                 request_proxy \o [i \in 1 .. n |-> processed.out[i].proxy]
          /\ response_server' =
                 response_server \o [i \in 1 .. n |-> processed.out[i].server]
          /\ completions' = completions \o processed.out
    /\ UNCHANGED <<config, active_requests, cur_idx, stats, status, report,
                   selections, sent>>

InitServer ==
    /\ Constructed(ServerBuilds)
    /\ backend_servers = 1
    /\ lb_policy = "Round Robin"

NextServer ==
    \/ \E s \in Servers, p \in Proxies : OnReceiveRequest(s, p)
    \/ ProcessRequest

SpecServer == InitServer /\ [][NextServer]_vars

\* ------------------------------------------------------------ claims
\* The queue lengths summed over the servers.
QueuedTotal == SumOver(BackendActiveRequests(upstream_servers), Servers)

\* The local counters summed over the proxies and the server indices.
CountedTotal ==
    SumOver([p \in Proxies |-> SumOver(active_requests[p], Servers)], Proxies)

\* The number of requests of proxy p queued on server s.
QueuedFrom(p, s) ==
    Cardinality({i \in 1 .. Len(upstream_servers[s].request_sources) :
                    upstream_servers[s].request_sources[i] = p})

\* C1: at every tick boundary the queue lengths summed over all servers equal
\* the local outstanding-request counters summed over all proxies and servers.
C1_QueuedEqualsCounted == QueuedTotal = CountedTotal

\* A tick boundary at which requests have completed and others are queued.
C1_Witness ==
    /\ status = "running"
    /\ request_cnt > 0
    /\ QueuedTotal > 0
    /\ proxy_servers > 1

\* Everything ever enqueued on server s: the queued and the completed requests.
EnqueuedOn(s) ==
    {[id |-> upstream_servers[s].h_ids[i], enq |-> upstream_servers[s].h_enq[i],
      proxy |-> upstream_servers[s].request_sources[i]] :
        i \in 1 .. Len(upstream_servers[s].h_ids)}
    \cup {[id |-> completions[i].h_id, enq |-> completions[i].h_enq,
           proxy |-> completions[i].proxy] :
            i \in {j \in 1 .. Len(completions) : completions[j].server = s}}

\* The completion records of server s.
CompletedOn(s) ==
    {completions[i] : i \in {j \in 1 .. Len(completions) : completions[j].server = s}}

\* Capacity 2, service time 3, and exactly three requests on server s, all
\* enqueued by proxy p between the same two processRequest calls, after e calls.
C2_Scenario(s, p, e) ==
    /\ cap = 2
    /\ svc = 3
    /\ upstream_servers[s].h_enqueued = 3
    /\ \A r \in EnqueuedOn(s) : r.enq = e /\ r.proxy = p

\* With C2_Scenario(s, p, e): requests 1 and 2 complete on call e + 3 with
\* latency 3, request 3 completes on call e + third with latency third.
BurstServed(s, e, third) ==
    /\ \A c \in CompletedOn(s) :
          /\ c.h_id \in {1, 2} => c.h_done = e + 3 /\ c.latency = 3
          /\ c.h_id = 3 => c.h_done = e + third /\ c.latency = third
    /\ upstream_servers[s].h_calls >= e + 3 =>
          {1, 2} \subseteq {c.h_id : c \in CompletedOn(s)}
    /\ upstream_servers[s].h_calls >= e + third =>
          3 \in {c.h_id : c \in CompletedOn(s)}

\* C2 as claimed: one server of capacity 2 and service time 3, three requests
\* enqueued in the same arrival phase by one proxy and none after: the first
\* two complete on the 3rd following processRequest with latency 3, the third
\* on the 4th with latency 4.
C2_ThirdCompletesOnFourth ==
    \A s \in Servers, p \in Proxies, e \in 0 .. MaxCalls :
        C2_Scenario(s, p, e) => BurstServed(s, e, 4)

\* C2 as amended: in that scenario the first two requests complete on the 3rd
\* following processRequest with latency 3 and the third on the 6th with
\* latency 6: it is outside the window for the three calls the first two take,
\* and only then starts its own three decrements.
C2_ThirdCompletesOnSixth ==
    \A s \in Servers, p \in Proxies, e \in 0 .. MaxCalls :
        C2_Scenario(s, p, e) => BurstServed(s, e, 6)

\* The burst of three has been served completely.
C2_Witness ==
    \E s \in Servers, p \in Proxies, e \in 0 .. MaxCalls :
        /\ C2_Scenario(s, p, e)
        /\ Cardinality(CompletedOn(s)) = 3

\* C3: the latency of every completion record is the service time plus the
\* number of processRequest calls the request spent outside the first
\* concurrency entries, which is the number of processRequest calls between its
\* enqueue and its completion, and is never less than the service time.
C3_LatencyIsServicePlusWait ==
    \A i \in 1 .. Len(completions) :
        /\ completions[i].latency = svc + completions[i].h_wait
        /\ completions[i].latency = completions[i].h_done - completions[i].h_enq
        /\ completions[i].latency >= svc

\* A request has completed that waited outside the window.
C3_Witness ==
    \E i \in 1 .. Len(completions) :
        /\ completions[i].h_wait > 0
        /\ completions[i].latency > svc

\* C4: on every server the completion records come out in enqueue order: a
\* request never completes before one enqueued earlier on the same server.
C4_FifoCompletion ==
    /\ \A i, j \in 1 .. Len(completions) :
          (i < j /\ completions[i].server = completions[j].server)
              => completions[i].h_id < completions[j].h_id
    /\ \A s \in Servers :
          \A c \in CompletedOn(s) :
              \A k \in 1 .. Len(upstream_servers[s].h_ids) :
                  c.h_id < upstream_servers[s].h_ids[k]

\* Two requests completed in the same call, with a request enqueued later
\* still queued behind them.
C4_Witness ==
    \E i, j \in 1 .. Len(completions) :
        /\ i < j
        /\ completions[i].server = completions[j].server
        /\ completions[i].h_done = completions[j].h_done
        /\ upstream_servers[completions[i].server].service_timers # <<>>

\* C5: with Round Robin and K servers the n-th selectUpstreamServer call of a
\* proxy returns n mod K (the first call returns 1 mod K), and the cursor stays
\* in 0 .. K-1.
C5_RoundRobinCycle ==
    lb_policy = "Round Robin" =>
        \A p \in Proxies :
            /\ cur_idx[p] \in 0 .. backend_servers - 1
            /\ cur_idx[p] = selections[p].n % backend_servers
            /\ selections[p].n >= 1 =>
                  selections[p].ret = selections[p].n % backend_servers

\* A proxy's cursor has wrapped around: its third call with two servers.
C5_Witness ==
    /\ lb_policy = "Round Robin"
    /\ backend_servers = 2
    /\ \E p \in Proxies : selections[p].n = 3 /\ selections[p].ret = 1

\* C6: Least Request with first draw a and second draw b # a returns a if the
\* proxy's counter of a is less than its counter of b, and b otherwise: never
\* the index with the larger counter, and b on equal counters.
C6_LeastOfTwo ==
    lb_policy = "Least Request" =>
        \A p \in Proxies :
            selections[p].n >= 1 =>
                /\ selections[p].a # selections[p].b
                /\ selections[p].ca < selections[p].cb
                      => selections[p].ret = selections[p].a
                /\ selections[p].ca >= selections[p].cb
                      => selections[p].ret = selections[p].b

\* A proxy whose latest selection went to its first draw, which had the
\* smaller counter, after an earlier selection on a tie.
C6_Witness ==
    /\ lb_policy = "Least Request"
    /\ \E p \in Proxies :
          /\ selections[p].n >= 2
          /\ selections[p].ca < selections[p].cb
          /\ selections[p].ret = selections[p].a

\* C7: a policy name other than the three known ones is a configuration error
\* at construction: no simulator without a policy ever runs a tick, and
\* onSendRequest is never reached with the policy missing.
C7_UnknownPolicyFailsFast ==
    /\ lb_policy \notin KnownPolicies => timer = 0
    /\ status # "null_policy_call"

\* C8: latency() with no completed request returns "no data" and divides
\* nothing; with completed requests it returns total_latency / request_cnt,
\* truncated.
C8_MeanLatencyNoData ==
    report.called =>
        IF report.divisor = 0
        THEN status = "no_data" /\ ~report.divided
        ELSE status = "reported" =>
                 report.mean = Value(total_latency \div request_cnt)

\* C9: on a non-empty history latency() reads the sorted history inside
\* 0 .. size-1, and returns the maximum whenever request_cnt / 1000 is 0.
C9_TailIndexInRange ==
    (report.called /\ report.size > 0) =>
        /\ report.index \in 0 .. report.size - 1
        /\ report.divisor \div TailDivisor = 0 =>
              report.tail = Value(MaxOf(Range(all_latency)))

\* C10: no counter of any proxy is negative, and a proxy none of whose
\* requests is queued on any server has all its counters at 0.
C10_CountersNonNegative ==
    \A p \in Proxies :
        /\ \A s \in Servers : active_requests[p][s] >= 0
        /\ (\A s \in Servers : QueuedFrom(p, s) = 0)
               => \A s \in Servers : active_requests[p][s] = 0

\* A proxy all of whose requests have completed, while another's is queued.
C10_Witness ==
    \E p, q \in Proxies :
        /\ selections[p].n >= 1
        /\ \A s \in Servers : QueuedFrom(p, s) = 0 /\ active_requests[p][s] = 0
        /\ \E s \in Servers : QueuedFrom(q, s) > 0

\* The completion records of proxy p.
CompletedFrom(p) ==
    Cardinality({i \in 1 .. Len(completions) : completions[i].proxy = p})

\* The recorded latencies of the completion records, in completion order.
CompletedLatencies == [i \in 1 .. Len(completions) |-> completions[i].latency]

\* C11: at every tick boundary the three completion buffers are empty and of
\* equal length, every completion record so far has been delivered to its
\* originating proxy exactly once (the proxy's counters sum to its sends minus
\* its completions) and folded into the request count, the total latency and
\* the latency history exactly once.
C11_BatchDeliveredAndCountedOnce ==
    /\ response_latency = <<>>
    /\ Len(request_proxy) = Len(response_latency)
    /\ Len(response_server) = Len(response_latency)
    /\ \A p \in Proxies :
          SumOver(active_requests[p], Servers)
              = selections[p].n - CompletedFrom(p)
    /\ request_cnt = Len(completions)
    /\ total_latency = SumSeq(CompletedLatencies)
    /\ Sort(all_latency) = Sort(CompletedLatencies)

\* Completion records produced by two different ticks, with ticks executed
\* after the first of them.
C11_Witness ==
    /\ \E i, j \in 1 .. Len(completions) :
          completions[i].h_done < completions[j].h_done
    /\ \E i \in 1 .. Len(completions) : completions[i].h_done < timer
    /\ request_cnt >= 2

\* The length server s's queue had after the latest processing step and
\* before the arrivals that followed it.
QueuedBeforeArrivals(s) ==
    Cardinality({i \in 1 .. Len(upstream_servers[s].h_enq) :
                    upstream_servers[s].h_enq[i] < upstream_servers[s].h_calls})

\* C12: every tick emits exactly one imbalance value, whether or not a
\* request completed in it; the value of the latest tick is the longest minus
\* the shortest server queue as they were after that tick's processing step
\* and before its arrival step, and every emitted value is >= 0.
C12_OneImbalancePerTick ==
    /\ Len(output) = timer
    /\ \A i \in 1 .. Len(output) : output[i] >= 0
    /\ timer >= 1 =>
          LET before == {QueuedBeforeArrivals(s) : s \in Servers}
          IN output[timer] = MaxOf(before) - MinOf(before)

\* A tick without a completion emitted a value, and the arrivals of the
\* latest tick changed the imbalance that the tick had emitted.
C12_Witness ==
    /\ timer >= 2
    /\ \E t \in 1 .. timer : \A i \in 1 .. Len(completions) :
          completions[i].h_done # t
    /\ \A s \in Servers : Len(upstream_servers[s].service_timers) >= 1
    /\ output[timer] # Imbalance(upstream_servers)

\* C13: a request created in the arrival step of tick t has its full service
\* time left and latency 0 at the end of tick t; each later processing step
\* adds 1 to its latency, the first of them in tick t + 1, and takes 1 from its
\* remaining service time exactly when the request is among the first
\* concurrency entries; so a request inside the window from its first
\* processing step on completes in tick t + service time with latency equal
\* to the service time.
C13_ArrivalsStartNextTick ==
    /\ \A s \in Servers :
          LET srv == upstream_servers[s]
          IN /\ srv.h_calls = timer
             /\ \A i \in 1 .. Len(srv.service_timers) :
                   LET age == srv.h_calls - srv.h_enq[i]
                   IN /\ age >= 0
                      /\ srv.latencies[i] = age
                      /\ srv.service_timers[i] = svc - (age - srv.h_waits[i])
                      /\ age = 0 => /\ srv.service_timers[i] = svc
                                    /\ srv.latencies[i] = 0
    /\ \A i \in 1 .. Len(completions) :
          completions[i].h_wait = 0 =>
              /\ completions[i].h_done = completions[i].h_enq + svc
              /\ completions[i].latency = svc

\* A request that arrived in tick t >= 1 and never left the window has
\* completed, and a request that arrived in the latest tick is queued
\* behind one that arrived before it.
C13_Witness ==
    /\ \E i \in 1 .. Len(completions) :
          /\ completions[i].h_wait = 0
          /\ completions[i].h_enq >= 1
          /\ svc >= 2
    /\ \E s \in Servers :
          LET srv == upstream_servers[s]
          IN \E i, j \in 1 .. Len(srv.h_enq) :
                /\ srv.h_enq[i] < srv.h_calls
                /\ srv.h_enq[j] = srv.h_calls

\* ------------------------------------------------------------ end to end
\* The end-to-end scenario: one proxy, one server, the real build, Round
\* Robin, one request in the arrival step of each of the first arrivals
\* ticks and none afterwards, observed after tick ticks.
Scenario == [arrivals |-> 10, ticks |-> 110]

\* The scripted run executes at most MaxScriptTicks ticks.
MaxScriptTicks == 205

InitEndToEnd ==
    /\ ConstructedWith({[cap |-> concurrency, svc |-> service_time]},
                       {<<1, 1>>})
    /\ lb_policy = "Round Robin"

\* run1TimeUnit with the scenario's arrival schedule in the place of the
\* frontend's draws: proxy 0 sends in the first Scenario.arrivals ticks.
Run1TimeUnitScripted ==
    /\ status = "running"
    /\ timer < MaxScriptTicks
    /\ LET sends == IF timer < Scenario.arrivals THEN {0} ELSE {}
       IN \E rnd \in [sends -> Draws(lb_policy, backend_servers)] :
             Tick(sends, rnd)

NextEndToEnd == Run1TimeUnitScripted \/ Latency

SpecEndToEnd == InitEndToEnd /\ [][NextEndToEnd]_vars

\* C14 as stated: after tick 110 all 10 requests have completed, each with
\* recorded latency exactly 100.
C14_AllCompleteWithServiceLatency ==
    timer >= Scenario.ticks =>
        /\ Len(completions) = Scenario.arrivals
        /\ \A i \in 1 .. Len(completions) :
              completions[i].latency = service_time

\* C14, amended: the queue grows to 10 entries, 4 more than the window. The
\* first concurrency requests complete in ticks 101..106 with latency 100
\* and are the only completions from tick 110 to tick 200; request k of the
\* other four enters the window when request k - concurrency is popped and
\* completes in tick k - concurrency + 200 with latency 194; after tick 204
\* all 10 have completed.
C14_WindowDelaysTheLastFour ==
    /\ \A i \in 1 .. Len(completions) :
          LET k == completions[i].h_id
          IN IF k <= concurrency
             THEN /\ completions[i].h_done = k + service_time
                  /\ completions[i].latency = service_time
             ELSE /\ completions[i].h_done
                        = k - concurrency + 2 * service_time
                  /\ completions[i].latency = 2 * service_time - concurrency
    /\ (timer >= Scenario.ticks /\ timer <= 2 * service_time) =>
          /\ Len(completions) = concurrency
          /\ Len(upstream_servers[0].service_timers)
                = Scenario.arrivals - concurrency
    /\ timer >= Scenario.arrivals - concurrency + 2 * service_time =>
          Len(completions) = Scenario.arrivals

\* The state after tick 110: six completions, four requests still queued,
\* none of them served yet for a full service time.
C14_Witness ==
    /\ timer = Scenario.ticks
    /\ Len(completions) = concurrency
    /\ Len(upstream_servers[0].service_timers) = 4
    /\ upstream_servers[0].h_waits = <<94, 94, 94, 94>>

\* ------------------------------------------------------------ invalid counts
\* Constructor arguments of which at least one count is <= 0.
InvalidCounts ==
    {c \in (-1 .. MaxNodes - 1) \X (-1 .. MaxNodes - 1) :
        (c[1] <= 0 \/ c[2] <= 0) /\ c[1] + c[2] < MaxNodes}

InitInvalid == ConstructedWith(Builds, InvalidCounts)

SpecInvalid == InitInvalid /\ [][Next]_vars

\* C15: a simulator constructed with proxyCount <= 0 or backendServerCount
\* <= 0 is rejected at construction and never executes a tick on its empty
\* proxy or server collection.
C15_InvalidCountsNeverTick ==
    (proxy_servers <= 0 \/ backend_servers <= 0) => timer = 0

\* Between two calls: every remaining service time is in 1 .. service_time,
\* and a request at 0-based index >= concurrency has its full service time.
TimersInRange ==
    \A s \in Servers :
       LET timers == upstream_servers[s].service_timers
       IN \A i \in 1 .. Len(timers) :
             /\ timers[i] \in 1 .. svc
             /\ i > cap => timers[i] = svc

\* One step of the server harness: a processRequest call takes exactly 1
\* from each of the first min(concurrency, size) timers and nothing from the
\* others, the timers it pops being such that reached 0; an
\* onReceiveRequest call leaves the queued timers as they are.
OnlyWindowDecremented ==
    \A s \in Servers :
       LET before == upstream_servers[s].service_timers
           after == upstream_servers'[s].service_timers
           popped == Len(before) - Len(after)
           Served(i) == IF i <= cap THEN 1 ELSE 0
       IN IF upstream_servers'[s].h_calls = upstream_servers[s].h_calls + 1
          THEN /\ popped >= 0
               /\ \A i \in 1 .. popped : before[i] - Served(i) = 0
               /\ \A i \in 1 .. Len(after) :
                     after[i] = before[i + popped] - Served(i + popped)
          ELSE \A i \in 1 .. Len(before) : after[i] = before[i]

\* C16: at every tick boundary every queued request's remaining service
\* time is in [1, service time] and every queued request at 0-based index
\* >= capacity has exactly the full service time; within one processing step
\* only the first min(capacity, queue length) entries are decremented, each
\* by exactly 1.
C16_WindowedDecrement == []TimersInRange /\ [][OnlyWindowDecremented]_vars

\* A queue longer than the window after a processing step: a partially
\* served request inside the window, an untouched one behind it.
C16_Witness ==
    \E s \in Servers :
       LET srv == upstream_servers[s]
       IN /\ srv.h_calls >= 1
          /\ Len(srv.service_timers) > cap
          /\ srv.service_timers[1] < svc
          /\ srv.service_timers[cap + 1] = svc
          /\ srv.h_waits[cap + 1] >= 1

\* C17: for every accepted configuration (backendServerCount >= 1, also 1)
\* and every policy each select call returns, with an index in
\* [0, backendServerCount); Least Request's redraw loop never spins forever.
C17_SelectReturns ==
    (lb_policy \in KnownPolicies /\ backend_servers >= 1) =>
        /\ status # "select_loop"
        /\ \A p \in Proxies :
              selections[p].n >= 1 => selections[p].ret \in Servers

\* ------------------------------------------------------------ liveness
\* The server harness with one proxy and processRequest called for as long
\* as a request is queued. A call on empty queues changes nothing but the
\* call count and is left out; a call decrements the front timer of every
\* non-empty queue, so MaxEnqueue * svc calls serve all that can be enqueued
\* and the last conjunct of the guard only stops a server that does not.
ProcessRequestBusy ==
    /\ \E s \in Servers : upstream_servers[s].service_timers # <<>>
    /\ \A s \in Servers : upstream_servers[s].h_calls <= MaxEnqueue * svc
    /\ LET processed == BackendProcessRequest(upstream_servers, 0, <<>>)
           n == Len(processed.out)
       IN /\ upstream_servers' = processed.servers
          /\ response_latency' =
                 response_latency \o [i \in 1 .. n |-> processed.out[i].latency]
          /\ request_proxy' =
                 request_proxy \o [i \in 1 .. n |-> processed.out[i].proxy]
          /\ response_server' =
                 response_server \o [i \in 1 .. n |-> processed.out[i].server]
          /\ completions' = completions \o processed.out
    /\ UNCHANGED <<config, active_requests, cur_idx, stats, status, report,
                   selections, sent>>

InitServerLive == InitServer /\ proxy_servers = 1

NextServerLive ==
    \/ \E s \in Servers, p \in Proxies : OnReceiveRequest(s, p)
    \/ ProcessRequestBusy

\* Ticks keep being executed: processRequest is called again whenever a
\* request is queued.
SpecServerLive ==
    InitServerLive /\ [][NextServerLive]_vars /\ WF_vars(ProcessRequestBusy)

\* The request with history id k is queued on server 0.
QueuedId(k) == k \in Range(upstream_servers[0].h_ids)

\* The request with history id k is queued on server 0 inside the window.
InWindowId(k) ==
    \E i \in 1 .. Len(upstream_servers[0].h_ids) :
       i <= cap /\ upstream_servers[0].h_ids[i] = k

\* The request with history id k was removed from server 0 and its
\* completion record carries the proxy that sent it.
CompletedId(k) ==
    \E i \in 1 .. Len(completions) :
       /\ completions[i].h_id = k
       /\ completions[i].server = 0
       /\ completions[i].proxy \in Proxies

\* C18: provided ticks keep being executed, every enqueued request
\* eventually reaches the first concurrency positions of its queue and is
\* eventually removed with a completion record for its originating proxy;
\* no request stays queued forever.
C18_EveryRequestCompletes ==
    \A k \in 1 .. MaxEnqueue :
       /\ QueuedId(k) ~> InWindowId(k)
       /\ QueuedId(k) ~> (CompletedId(k) /\ ~QueuedId(k))

\* A request that was enqueued behind a full window has completed and no
\* request is queued any more.
C18_Witness ==
    /\ \E i \in 1 .. Len(completions) : completions[i].h_wait >= 1
    /\ Len(completions) = MaxEnqueue
    /\ upstream_servers[0].service_timers = <<>>

\* C19: at every tick boundary, for every proxy p and server s, p's local
\* counter for s is exactly the number of requests queued on s whose origin
\* is p.
C19_CounterIsQueuedFromProxy ==
    \A p \in Proxies : \A s \in Servers :
       active_requests[p][s] = QueuedFrom(p, s)

\* Two proxies have requests queued on the same server, after one request of
\* that server has completed and been delivered.
C19_Witness ==
    /\ proxy_servers >= 2
    /\ \E s \in Servers :
          /\ \A p \in Proxies : QueuedFrom(p, s) >= 1
          /\ \E i \in 1 .. Len(completions) : completions[i].server = s

\* ------------------------------------------------------------ proxy harness
\* The proxies driven call by call, outside run1TimeUnit.
InitProxy ==
    ConstructedWith({[cap |-> concurrency, svc |-> service_time]}, ValidCounts)

\* ProxyServer::onSendRequest of proxy p, with draws r.
OnSendRequest(p, r) ==
    /\ status = "running"
    /\ sent < MaxSends
    /\ LET st == ProxyOnSendRequest(
                     [servers |-> upstream_servers, active |-> active_requests,
                      cur |-> cur_idx, sels |-> selections, status |-> status],
                     p, r)
       IN /\ upstream_servers' = st.servers
          /\ active_requests' = st.active
          /\ cur_idx' = st.cur
          /\ selections' = st.sels
          /\ status' = st.status
          /\ sent' = SumOver([q \in Proxies |-> st.sels[q].n], Proxies)
    /\ UNCHANGED <<config, batch, stats, report, completions>>

\* ProxyServer::onReceiveResponse(upstream_server) of proxy p, called as
\* collectStats calls it: for a request p has outstanding on that server.
OnReceiveResponse(p, upstream_server) ==
    /\ status = "running"
    /\ active_requests[p][upstream_server] > 0
    /\ IF lb_policy \in KnownPolicies
       THEN /\ active_requests' =
                   [active_requests EXCEPT
                       ![p] = LBOnReceiveResponse(@, upstream_server)]
            /\ status' = status
       ELSE /\ active_requests' = active_requests
            /\ status' = "null_policy_call"
    /\ UNCHANGED <<config, upstream_servers, cur_idx, batch, stats, report,
                   completions, selections, sent>>

NextProxy ==
    \/ \E p \in Proxies : \E r \in Draws(lb_policy, backend_servers) :
          OnSendRequest(p, r)
    \/ \E p \in Proxies, s \in Servers : OnReceiveResponse(p, s)

SpecProxy == InitProxy /\ [][NextProxy]_vars

\* A step in which proxy p sent: p's counter for the selected server s is
\* one more and no other counter changed, s's queue has one more entry
\* (origin p, full service time, latency 0) and no other server changed, no
\* other proxy's cursor moved, the buffers and the statistics are as before;
\* and the selected server is a function of p's own cursor, p's own counters
\* and the draws.
SendFrame ==
    \A p \in Proxies :
       selections'[p].n = selections[p].n + 1 =>
          LET s == selections'[p].ret
              a == selections'[p].a
              b == selections'[p].b
              old == upstream_servers[s]
              new == upstream_servers'[s]
          IN /\ s \in Servers
             /\ active_requests' = [active_requests EXCEPT ![p][s] = @ + 1]
             /\ \A q \in Proxies \ {p} :
                   cur_idx'[q] = cur_idx[q] /\ selections'[q] = selections[q]
             /\ \A t \in Servers \ {s} :
                   upstream_servers'[t] = upstream_servers[t]
             /\ new.service_timers = Append(old.service_timers, svc)
             /\ new.request_sources = Append(old.request_sources, p)
             /\ new.latencies = Append(old.latencies, 0)
             /\ UNCHANGED <<batch, stats>>
             /\ s = IF lb_policy = "Round Robin"
                    THEN (cur_idx[p] + 1) % backend_servers
                    ELSE IF lb_policy = "Random Select" THEN a
                    ELSE IF active_requests[p][a] < active_requests[p][b]
                    THEN a ELSE b

\* A step in which no proxy sent and a counter changed: one counter of one
\* proxy is one less, and nothing else changed.
ReceiveFrame ==
    (sent' = sent /\ active_requests' # active_requests) =>
        /\ \E p \in Proxies, s \in Servers :
              active_requests' = [active_requests EXCEPT ![p][s] = @ - 1]
        /\ UNCHANGED <<upstream_servers, cur_idx, selections, batch, stats>>

\* C20: a send by proxy p that selects server s changes only p's counter for
\* s (+1), p's own policy state and s's queue (one appended entry with
\* origin p, full service time, latency 0); a received response for s changes
\* only p's counter for s (-1); every other proxy's counters and policy
\* state, every other server's queue and the statistics are unchanged, and
\* p's choice depends on no other proxy's counters.
C20_ProxyFrame == [][SendFrame /\ ReceiveFrame]_vars

\* Two proxies have sent, and one of them has received a response while
\* the other still counts all it sent.
C20_Witness ==
    /\ proxy_servers >= 2
    /\ \A p \in Proxies : selections[p].n >= 1
    /\ \E p, q \in Proxies :
          /\ SumOver(active_requests[p], Servers) < selections[p].n
          /\ SumOver(active_requests[q], Servers) = selections[q].n

====
